---- MODULE Spec2Model ----
(***************************************************************************)
(* Model of sign.py, the code-signing command-line tool: the App           *)
(* operations generate_certificate, sign_executable, verify_executable and *)
(* show_info, the SecretsPaths / Secrets helpers and the argument routing  *)
(* of main.  Every command-line invocation is a process working on the     *)
(* shared disk; a process owns its temporary directory.                    *)
(*                                                                         *)
(* Text and bytes are sequences of integers.  A character of a text is     *)
(* written as its base64 value when it belongs to the base64 alphabet      *)
(* (0..63), and as PAD, HYPHEN or BANG otherwise.                          *)
(***************************************************************************)
EXTENDS Integers, Sequences, FiniteSets, TLC

\* ------------------------------------------------------------------ bounds
NumProcs == 2

Procs == 1..NumProcs

\* -------------------------------------------------------------- characters
PAD == 64
HYPHEN == 65
BANG == 66

\* ------------------------------------------------------------ Python values
\* A Python value that is either a str or a bool (args.force).
PyStr(s) == [type |-> "str", b |-> FALSE, s |-> s]
PyBool(b) == [type |-> "bool", b |-> b, s |-> ""]

\* Python truthiness: a str is true unless empty, a bool is itself.
Truthy(v) == IF v.type = "bool" THEN v.b ELSE v.s # ""

\* ------------------------------------------------------------------ base64
RECURSIVE b64encode(_)
b64encode(bs) ==
    IF Len(bs) = 0 THEN <<>>
    ELSE IF Len(bs) = 1 THEN
        << bs[1] \div 4, (bs[1] % 4) * 16, PAD, PAD >>
    ELSE IF Len(bs) = 2 THEN
        << bs[1] \div 4, (bs[1] % 4) * 16 + (bs[2] \div 16), (bs[2] % 16) * 4, PAD >>
    ELSE
        << bs[1] \div 4,
           (bs[1] % 4) * 16 + (bs[2] \div 16),
           (bs[2] % 16) * 4 + (bs[3] \div 64),
           bs[3] % 64 >> \o b64encode(SubSeq(bs, 4, Len(bs)))

\* binascii.a2b_base64 in its default (non-strict) mode, as b64decode calls
\* it: characters outside the alphabet are skipped, a complete pad sequence
\* ends the input, leftover data characters are an error.
RECURSIVE a2b_base64(_, _, _, _, _, _)
a2b_base64(s, i, quad_pos, leftchar, pads, out) ==
    IF i > Len(s) THEN
        IF quad_pos = 0 THEN [ok |-> TRUE, data |-> out]
        ELSE [ok |-> FALSE, data |-> <<>>]
    ELSE LET ch == s[i] IN
        IF ch = PAD THEN
            IF quad_pos >= 2 /\ quad_pos + pads + 1 >= 4
            THEN [ok |-> TRUE, data |-> out]
            ELSE a2b_base64(s, i + 1, quad_pos, leftchar,
                            IF quad_pos >= 2 THEN pads + 1 ELSE pads, out)
        ELSE IF ch > PAD THEN
            a2b_base64(s, i + 1, quad_pos, leftchar, pads, out)
        ELSE IF quad_pos = 0 THEN
            a2b_base64(s, i + 1, 1, ch, 0, out)
        ELSE IF quad_pos = 1 THEN
            a2b_base64(s, i + 1, 2, ch % 16, 0,
                       Append(out, leftchar * 4 + (ch \div 16)))
        ELSE IF quad_pos = 2 THEN
            a2b_base64(s, i + 1, 3, ch % 4, 0,
                       Append(out, leftchar * 16 + (ch \div 4)))
        ELSE
            a2b_base64(s, i + 1, 0, 0, 0, Append(out, leftchar * 64 + ch))

b64decode(s) == a2b_base64(s, 1, 0, 0, 0, <<>>)


\* ------------------------------------------------------------------- paths
Cwd == "cwd"

\* A path as its directory, its stem and its extension (dot included).
RelPath(stem, ext) == [dir |-> "", stem |-> stem, ext |-> ext]
NullPath == [dir |-> "", stem |-> "", ext |-> ""]

\* file_path(app.cwd, s): the relative name s joined to the working directory.
file_path(cwd, s) == [dir |-> cwd, stem |-> s.stem, ext |-> s.ext]

\* os.path.splitext: << base path, extension >>.
splitext(path) == << [dir |-> path.dir, stem |-> path.stem], path.ext >>

OutCrt == file_path(Cwd, RelPath("out", ".crt"))
OutCrtPass == file_path(Cwd, RelPath("out", ".crtpass"))
AppExe == file_path(Cwd, RelPath("app", ".exe"))

\* The files of the working directory the model follows.
DiskPaths == {OutCrt, OutCrtPass, AppExe}

NoFile == [exists |-> FALSE, data |-> <<>>]
File(data) == [exists |-> TRUE, data |-> data]

\* os.path.isfile
isfile(d, path) == path \in DOMAIN d /\ d[path].exists

\* ------------------------------------------------------------- input values
\* Content of the files that exist before the first invocation.
OldCrt == <<BANG, BANG, BANG>>
OldPass == <<9, 9>>
OldExe == <<1>>

\* What the certificate helper leaves in cert.pfx.
PfxData == { <<77>>, <<0, 255, 1, 2>> }

\* Values of str(uuid4()).
Uuids == { <<10, HYPHEN, 11>>, <<12, HYPHEN, 13, 14>> }

Unset == [set |-> FALSE, val |-> <<>>]
SetTo(v) == [set |-> TRUE, val |-> v]

\* os.getenv of the two default-credential variables: unset, well-formed
\* base64, base64 with one dangling character.
EnvCrtVals == { Unset, SetTo(b64encode(<<77>>)), SetTo(<<19>>) }
EnvPassVals == { Unset, SetTo(<<1, 2>>) }
Envs == [crt : EnvCrtVals, pass : EnvPassVals]
NoEnv == [crt |-> Unset, pass |-> Unset]

NotGiven == [given |-> FALSE, p |-> NullPath]
Given(stem, ext) == [given |-> TRUE, p |-> RelPath(stem, ext)]

NoArgv == [cmd |-> "", rest |-> <<>>, force |-> "", path |-> NotGiven,
           cert |-> NotGiven, certFirst |-> TRUE]

InfoArgvs == { [NoArgv EXCEPT !.cmd = "info", !.rest = r] :
                   r \in { <<>>, <<"a">>, <<"-z">> } }
CertArgvs == { [NoArgv EXCEPT !.cmd = "cert", !.force = f, !.path = q] :
                   f \in {"", "--force", "--no-force"},
                   q \in { Given("out", ".crt"), Given("out", ".exe"), NotGiven } }
SignArgvs == { [NoArgv EXCEPT !.cmd = "sign", !.path = q, !.cert = c, !.certFirst = o] :
                   q \in { Given("app", ".exe"), Given("nope", ".exe"), NotGiven },
                   c \in { Given("out", ".crt"), NotGiven },
                   o \in BOOLEAN }
VerifyArgvs == { [NoArgv EXCEPT !.cmd = "verify", !.path = q] :
                   q \in { Given("app", ".exe"), Given("nope", ".exe") } }

\* sys.argv[1:]
Argvs == {NoArgv} \cup InfoArgvs \cup CertArgvs \cup SignArgvs \cup VerifyArgvs

\* ------------------------------------------------------------------ results
Ok == [status |-> "ok", err |-> "", detail |-> ""]
Raise(err, detail) == [status |-> "error", err |-> err, detail |-> detail]
Running == [status |-> "", err |-> "", detail |-> ""]

\* parser.error: usage message and exit status 2.
ParserError(detail) == Raise("SystemExit", detail)

\* --------------------------------------------------------------------- App
NoApp == [is_no_op |-> FALSE, cwd |-> "", helper_path |-> "", signtool_path |-> "",
          certificate_ext |-> "", password_ext |-> "", timestamp_url |-> "",
          env_prefix |-> ""]

no_op(cwd) ==
    [is_no_op |-> TRUE, cwd |-> cwd, helper_path |-> "HELPER_PATH",
     signtool_path |-> "SIGNTOOL_PATH", certificate_ext |-> ".crt",
     password_ext |-> ".crtpass", timestamp_url |-> "TIMESTAMP_URL",
     env_prefix |-> "RUST_TOOL_ACTION_CODE_SIGN_"]

default(cwd) ==
    [is_no_op |-> FALSE, cwd |-> cwd, helper_path |-> "generate-certificate-helper.ps1",
     signtool_path |-> "signtool.exe", certificate_ext |-> ".crt",
     password_ext |-> ".crtpass", timestamp_url |-> "http://timestamp.digicert.com",
     env_prefix |-> "RUST_TOOL_ACTION_CODE_SIGN_"]

\* App.make: the functional configuration on Windows, where find_signtool
\* raises when no signtool.exe is installed, the no-op one elsewhere.
make(platform, signtool_found, cwd) ==
    IF platform = "windows"
    THEN IF signtool_found THEN [ok |-> TRUE, app |-> default(cwd)]
         ELSE [ok |-> FALSE, app |-> NoApp]
    ELSE [ok |-> TRUE, app |-> no_op(cwd)]

\* ------------------------------------------------- SecretsPaths and Secrets
NoPaths == [certificate_path |-> NullPath, password_path |-> NullPath]

\* SecretsPaths.parse(app, certificate_path)
SecretsPaths_parse(a, certificate_path) ==
    LET base_path == splitext(certificate_path)[1]
        ext == splitext(certificate_path)[2]
    IN IF ext # a.certificate_ext
       THEN [ok |-> FALSE, err |-> "ValueError", paths |-> NoPaths]
       ELSE [ok |-> TRUE, err |-> "",
             paths |-> [certificate_path |-> certificate_path,
                        password_path |-> [dir |-> base_path.dir, stem |-> base_path.stem,
                                           ext |-> a.password_ext]]]

\* Number of parameters of SecretsPaths.parse.
ParseArity == 2

None == [isNone |-> TRUE, certificate |-> <<>>, password |-> <<>>]
Secrets(certificate, password) ==
    [isNone |-> FALSE, certificate |-> certificate, password |-> password]

\* Secrets.decode
Secrets_decode(b64_certificate, password) ==
    LET certificate == b64decode(b64_certificate)
    IN IF certificate.ok
       THEN [ok |-> TRUE, err |-> "", value |-> Secrets(certificate.data, password)]
       ELSE [ok |-> FALSE, err |-> "binascii.Error", value |-> None]

\* Secrets.load: calls SecretsPaths.parse with the certificate path as its
\* only argument; a call that does not supply every parameter raises
\* TypeError before the body of parse runs.  What follows the call in load
\* (read both files, decode) is kept as written, with the configuration a
\* standing for the argument the call leaves out.
Secrets_load(a, certificate_path, d) ==
    LET call_args == << certificate_path >>
        parsed == SecretsPaths_parse(a, certificate_path)
    IN IF Len(call_args) # ParseArity
       THEN [ok |-> FALSE, err |-> "TypeError", value |-> None]
       ELSE IF ~parsed.ok
       THEN [ok |-> FALSE, err |-> parsed.err, value |-> None]
       ELSE IF ~isfile(d, parsed.paths.certificate_path)
               \/ ~isfile(d, parsed.paths.password_path)
       THEN [ok |-> FALSE, err |-> "FileNotFoundError", value |-> None]
       ELSE Secrets_decode(d[parsed.paths.certificate_path].data,
                           d[parsed.paths.password_path].data)


\* -------------------------------------------------------------------- main
NoArgs == [cmd |-> "", rest |-> <<>>, certificate_path |-> NullPath,
           force |-> PyBool(FALSE), secrets |-> None, executable_path |-> NullPath]

NoError == ""

\* main.file_path_type
file_path_type(a, s) == file_path(a.cwd, s)

\* Variant: the conversion does not look at the disk.
file_path_must_exist_type_unchecked(a, s, d) == NoError

\* main.file_path_must_exist_type: the error of the conversion, if any.
file_path_must_exist_type(a, s, d) ==
    IF ~isfile(d, file_path(a.cwd, s)) THEN "does not exist" ELSE NoError

\* main.add_secrets_arg.secrets_type: every exception of Secrets.load becomes
\* an ArgumentTypeError.
secrets_type(a, s, d) ==
    LET loaded == Secrets_load(a, file_path(a.cwd, s), d)
    IN IF loaded.ok THEN [error |-> NoError, value |-> loaded.value]
       ELSE [error |-> "cannot load secrets", value |-> None]

\* Variant: one variable is enough for a default bundle.
has_default_secrets_either(e) == e.crt.set \/ e.pass.set

\* main.add_secrets_arg: a default bundle exists only when both environment
\* variables are set, and is decoded on the spot.
has_default_secrets(e) == e.crt.set /\ e.pass.set

default_secrets(e) ==
    IF has_default_secrets(e)
    THEN Secrets_decode(e.crt.val, e.pass.val)
    ELSE [ok |-> TRUE, err |-> "", value |-> None]

\* --cert is added with required=True when there is no default bundle.
cert_required(e) == default_secrets(e).value.isNone

\* The value of args.force: the declared default is the string "false",
\* --force stores True and --no-force stores False (BooleanOptionalAction).
force_value(flag) ==
    IF flag = "--force" THEN PyBool(TRUE)
    ELSE IF flag = "--no-force" THEN PyBool(FALSE)
    ELSE PyStr("false")

\* An argument of the info subcommand that starts with "-" is read as an
\* option; info declares none, so it is left over as unrecognized.
IsOptionLike(tok) == tok = "-z"

\* The first conversion error in command-line order.
FirstError(e1, e2) == IF e1 # NoError THEN e1 ELSE e2

\* parser.parse_args(app.argv) for the four subparsers.
parse_args(a, av, e, d) ==
    IF av.cmd = "" THEN
        [result |-> ParserError("arguments are required: command"), args |-> NoArgs]
    ELSE IF av.cmd = "info" THEN
        IF \E i \in 1..Len(av.rest) : IsOptionLike(av.rest[i])
        THEN [result |-> ParserError("unrecognized arguments"), args |-> NoArgs]
        ELSE [result |-> Ok, args |-> [NoArgs EXCEPT !.cmd = "info", !.rest = av.rest]]
    ELSE IF av.cmd = "cert" THEN
        IF ~av.path.given
        THEN [result |-> ParserError("arguments are required: CERTIFICATE_PATH"),
              args |-> NoArgs]
        ELSE [result |-> Ok,
              args |-> [NoArgs EXCEPT !.cmd = "cert",
                                      !.certificate_path = file_path_type(a, av.path.p),
                                      !.force = force_value(av.force)]]
    ELSE IF av.cmd = "sign" THEN
        LET cert == IF av.cert.given THEN secrets_type(a, av.cert.p, d)
                    ELSE [error |-> NoError, value |-> default_secrets(e).value]
            exeErr == IF av.path.given
                      THEN file_path_must_exist_type(a, av.path.p, d) ELSE NoError
            convErr == IF av.certFirst THEN FirstError(cert.error, exeErr)
                       ELSE FirstError(exeErr, cert.error)
        IN IF convErr # NoError
           THEN [result |-> ParserError(convErr), args |-> NoArgs]
           ELSE IF ~av.cert.given /\ cert_required(e)
           THEN [result |-> ParserError(IF av.path.given
                                        THEN "arguments are required: --cert/-c"
                                        ELSE "arguments are required: --cert/-c, EXECUTABLE_PATH"),
                 args |-> NoArgs]
           ELSE IF ~av.path.given
           THEN [result |-> ParserError("arguments are required: EXECUTABLE_PATH"),
                 args |-> NoArgs]
           ELSE [result |-> Ok,
                 args |-> [NoArgs EXCEPT !.cmd = "sign", !.secrets = cert.value,
                                         !.executable_path = file_path(a.cwd, av.path.p)]]
    ELSE
        LET exeErr == IF av.path.given
                      THEN file_path_must_exist_type(a, av.path.p, d) ELSE NoError
        IN IF exeErr # NoError
           THEN [result |-> ParserError(exeErr), args |-> NoArgs]
           ELSE IF ~av.path.given
           THEN [result |-> ParserError("arguments are required: EXECUTABLE_PATH"),
                 args |-> NoArgs]
           ELSE [result |-> Ok,
                 args |-> [NoArgs EXCEPT !.cmd = "verify",
                                         !.executable_path = file_path(a.cwd, av.path.p)]]

\* main up to the dispatch: the parsers are built, which decodes the default
\* bundle, then the command line is parsed.
main_parse(a, av, e, d) ==
    IF ~default_secrets(e).ok
    THEN [result |-> Raise(default_secrets(e).err, "add_secrets_arg"), args |-> NoArgs]
    ELSE parse_args(a, av, e, d)

\* ------------------------------------------------------------------- state
VARIABLES
    disk,       \* the files of the working directory
    temp,       \* temp[p]: the temporary directory of process p and its cert.pfx
    pc,         \* pc[p]: where process p stands
    platform,   \* platform[p]: platform.system() of the host of p
    argv,       \* argv[p]: the command line of p
    env,        \* env[p]: the default-credential environment variables of p
    app,        \* app[p]: the App configuration of p
    args,       \* args[p]: the namespace parse_args returned
    password,   \* password[p]: the password generate_certificate made up
    pfx_data,   \* pfx_data[p]: the bytes generate_certificate read from cert.pfx
    result,     \* result[p]: how the invocation ended
    spawned,    \* spawned[p]: the external processes p has run
    entered,    \* entered[p]: the App method p has entered
    wrote,      \* wrote[p]: the files p has created, truncated or written
    pre,        \* pre[p]: the disk when p started
    temp_made,  \* temp_made[p]: p has created a temporary directory
    printed     \* printed[p]: show_info has printed the configuration

vars == << disk, temp, pc, platform, argv, env, app, args, password, pfx_data,
           result, spawned, entered, wrote, pre, temp_made, printed >>

NoTemp == [exists |-> FALSE, pfx |-> NoFile]

NoDisk == [q \in DiskPaths |-> NoFile]

\* The working directory before the first invocation: each of the three
\* files is there or not.
InitDisks ==
    { [q \in DiskPaths |->
          IF q = OutCrt THEN (IF c THEN File(OldCrt) ELSE NoFile)
          ELSE IF q = OutCrtPass THEN (IF w THEN File(OldPass) ELSE NoFile)
          ELSE (IF x THEN File(OldExe) ELSE NoFile)] :
      c \in BOOLEAN, w \in BOOLEAN, x \in BOOLEAN }

Init ==
    /\ disk \in InitDisks
    /\ temp = [p \in Procs |-> NoTemp]
    /\ pc = [p \in Procs |-> "idle"]
    /\ platform = [p \in Procs |-> ""]
    /\ argv = [p \in Procs |-> NoArgv]
    /\ env = [p \in Procs |-> NoEnv]
    /\ app = [p \in Procs |-> NoApp]
    /\ args = [p \in Procs |-> NoArgs]
    /\ password = [p \in Procs |-> <<>>]
    /\ pfx_data = [p \in Procs |-> <<>>]
    /\ result = [p \in Procs |-> Running]
    /\ spawned = [p \in Procs |-> <<>>]
    /\ entered = [p \in Procs |-> ""]
    /\ wrote = [p \in Procs |-> {}]
    /\ pre = [p \in Procs |-> NoDisk]
    /\ temp_made = [p \in Procs |-> FALSE]
    /\ printed = [p \in Procs |-> FALSE]


\* --------------------------------------------------------- library pieces
\* Variant: the directory is left behind when the block is left.
TemporaryDirectory_exit_leaves(t) == t

\* with TemporaryDirectory() as temp_dir: the directory on entry, and what
\* leaving the block (normally or by an exception) makes of it.
TemporaryDirectory_enter == [exists |-> TRUE, pfx |-> NoFile]
TemporaryDirectory_exit(t) == NoTemp

\* Variant: the output files are always opened with "wt".
open_mode_always_wt(force) == "wt"

\* mode = "wt" if force else "xt"
open_mode(force) == IF Truthy(force) THEN "wt" ELSE "xt"

\* open(path, mode) for writing: "x" refuses an existing file.
open_raises(d, path, mode) == mode = "xt" /\ isfile(d, path)

\* f.write(text) on a file opened for writing, from offset 0: what lies
\* beyond the written text (put there by another writer) stays.
write(old, text) == text \o SubSeq(old, Len(text) + 1, Len(old))

\* Variant: run without check=True never raises.
run_raises_unchecked(returncode) == FALSE

\* run(command, check=True) raises CalledProcessError on a non-zero exit.
run_raises(returncode) == returncode # 0

\* str(...).replace("-", "")
RECURSIVE replace_hyphens(_)
replace_hyphens(s) ==
    IF Len(s) = 0 THEN <<>>
    ELSE IF s[1] = HYPHEN THEN replace_hyphens(Tail(s))
    ELSE << s[1] >> \o replace_hyphens(Tail(s))

ReturnCodes == {0, 1}

Spawn(prog, verb, returncode, a, pfx, pw, target) ==
    [prog |-> prog, verb |-> verb, returncode |-> returncode,
     timestamp_url |-> IF verb = "sign" THEN a.timestamp_url ELSE "",
     pfx |-> pfx, password |-> pw, target |-> target]

\* ----------------------------------------------------------------- actions
\* The process starts: App.make, then main up to args.func(args).
Main(p, plat, found, av, e) ==
    /\ pc[p] = "idle"
    /\ platform' = [platform EXCEPT ![p] = plat]
    /\ argv' = [argv EXCEPT ![p] = av]
    /\ env' = [env EXCEPT ![p] = e]
    /\ pre' = [pre EXCEPT ![p] = disk]
    /\ LET m == make(plat, found, Cwd)
           r == main_parse(m.app, av, e, disk)
       IN IF ~m.ok
          THEN /\ result' = [result EXCEPT ![p] = Raise("RuntimeError", "find_signtool")]
               /\ pc' = [pc EXCEPT ![p] = "done"]
               /\ UNCHANGED << app, args >>
          ELSE /\ app' = [app EXCEPT ![p] = m.app]
               /\ IF r.result.status = "ok"
                  THEN /\ args' = [args EXCEPT ![p] = r.args]
                       /\ pc' = [pc EXCEPT ![p] = "func"]
                       /\ UNCHANGED result
                  ELSE /\ result' = [result EXCEPT ![p] = r.result]
                       /\ pc' = [pc EXCEPT ![p] = "done"]
                       /\ UNCHANGED args
    /\ UNCHANGED << disk, temp, password, pfx_data, spawned, entered, wrote,
                    temp_made, printed >>

\* One invocation at a time, with any command line, environment and host.
Start(p) ==
    /\ \A q \in Procs : pc[q] = "idle"
    /\ \E plat \in {"windows", "linux"}, found \in BOOLEAN, av \in Argvs, e \in Envs :
           Main(p, plat, found, av, e)

\* App.show_info
show_info(p) ==
    /\ pc[p] = "func" /\ args[p].cmd = "info"
    /\ entered' = [entered EXCEPT ![p] = "show_info"]
    /\ printed' = [printed EXCEPT ![p] = TRUE]
    /\ result' = [result EXCEPT ![p] = Ok]
    /\ pc' = [pc EXCEPT ![p] = "done"]
    /\ UNCHANGED << disk, temp, platform, argv, env, app, args, password, pfx_data,
                    spawned, wrote, pre, temp_made >>

\* App.generate_certificate after the no-op test: the paths, the password,
\* the temporary directory.
generate_certificate_body(p) ==
    LET paths == SecretsPaths_parse(app[p], args[p].certificate_path)
    IN IF ~paths.ok
       THEN /\ result' = [result EXCEPT ![p] = Raise(paths.err, "SecretsPaths.parse")]
            /\ pc' = [pc EXCEPT ![p] = "done"]
            /\ UNCHANGED << temp, password, temp_made >>
       ELSE /\ \E u \in Uuids : password' = [password EXCEPT ![p] = replace_hyphens(u)]
            /\ temp' = [temp EXCEPT ![p] = TemporaryDirectory_enter]
            /\ temp_made' = [temp_made EXCEPT ![p] = TRUE]
            /\ pc' = [pc EXCEPT ![p] = "gen_run"]
            /\ UNCHANGED result

\* App.generate_certificate, entry.
generate_certificate(p) ==
    /\ pc[p] = "func" /\ args[p].cmd = "cert"
    /\ entered' = [entered EXCEPT ![p] = "generate_certificate"]
    /\ IF app[p].is_no_op
       THEN /\ result' = [result EXCEPT ![p] = Ok]
            /\ pc' = [pc EXCEPT ![p] = "done"]
            /\ UNCHANGED << temp, password, temp_made >>
       ELSE generate_certificate_body(p)
    /\ UNCHANGED << disk, platform, argv, env, app, args, pfx_data, spawned, wrote,
                    pre, printed >>

\* run(command, check=True) of the certificate helper.  The helper is an
\* external program: it exits with some status and, when it exits with 0,
\* has written cert.pfx or has not.
gen_run(p) ==
    /\ pc[p] = "gen_run"
    /\ \E rc \in ReturnCodes, out \in {NoFile} \cup {File(x) : x \in PfxData} :
        /\ (rc # 0) => (out = NoFile)
        /\ spawned' = [spawned EXCEPT ![p] =
               Append(@, Spawn("powershell", "helper", rc, app[p], <<>>, password[p],
                               NullPath))]
        /\ IF run_raises(rc)
           THEN /\ result' = [result EXCEPT ![p] = Raise("CalledProcessError", "helper")]
                /\ temp' = [temp EXCEPT ![p] = TemporaryDirectory_exit(@)]
                /\ pc' = [pc EXCEPT ![p] = "done"]
           ELSE /\ temp' = [temp EXCEPT ![p].pfx = out]
                /\ pc' = [pc EXCEPT ![p] = "gen_open"]
                /\ UNCHANGED result
    /\ UNCHANGED << disk, platform, argv, env, app, args, password, pfx_data, entered,
                    wrote, pre, temp_made, printed >>

\* with open(temp_path, "rb") as in_f, open(paths.certificate_path, mode) as out_f
gen_open(p) ==
    /\ pc[p] = "gen_open"
    /\ LET path == SecretsPaths_parse(app[p], args[p].certificate_path).paths.certificate_path
           mode == open_mode(args[p].force)
       IN IF ~temp[p].pfx.exists
          THEN /\ result' = [result EXCEPT ![p] = Raise("FileNotFoundError", "cert.pfx")]
               /\ temp' = [temp EXCEPT ![p] = TemporaryDirectory_exit(@)]
               /\ pc' = [pc EXCEPT ![p] = "done"]
               /\ UNCHANGED << disk, wrote >>
          ELSE IF open_raises(disk, path, mode)
          THEN /\ result' = [result EXCEPT ![p] = Raise("FileExistsError", "certificate_path")]
               /\ temp' = [temp EXCEPT ![p] = TemporaryDirectory_exit(@)]
               /\ pc' = [pc EXCEPT ![p] = "done"]
               /\ UNCHANGED << disk, wrote >>
          ELSE /\ disk' = [disk EXCEPT ![path] = File(<<>>)]
               /\ wrote' = [wrote EXCEPT ![p] = @ \cup {path}]
               /\ pc' = [pc EXCEPT ![p] = "gen_write"]
               /\ UNCHANGED << result, temp >>
    /\ UNCHANGED << platform, argv, env, app, args, password, pfx_data, spawned,
                    entered, pre, temp_made, printed >>

\* pfx_data = in_f.read(); out_f.write(b64encode(pfx_data).decode("utf-8"));
\* the write can fail (io_ok false), as any write to a disk can.
gen_write(p) ==
    /\ pc[p] = "gen_write"
    /\ LET path == SecretsPaths_parse(app[p], args[p].certificate_path).paths.certificate_path
       IN \E io_ok \in BOOLEAN :
           /\ pfx_data' = [pfx_data EXCEPT ![p] = temp[p].pfx.data]
           /\ IF io_ok
              THEN /\ disk' = [disk EXCEPT ![path] =
                          File(write(@.data, b64encode(temp[p].pfx.data)))]
                   /\ pc' = [pc EXCEPT ![p] = "gen_open_pw"]
                   /\ UNCHANGED << result, temp >>
              ELSE /\ result' = [result EXCEPT ![p] = Raise("OSError", "certificate_path")]
                   /\ temp' = [temp EXCEPT ![p] = TemporaryDirectory_exit(@)]
                   /\ pc' = [pc EXCEPT ![p] = "done"]
                   /\ UNCHANGED disk
    /\ UNCHANGED << platform, argv, env, app, args, password, spawned, entered, wrote,
                    pre, temp_made, printed >>

\* with open(paths.password_path, mode) as f
gen_open_pw(p) ==
    /\ pc[p] = "gen_open_pw"
    /\ LET path == SecretsPaths_parse(app[p], args[p].certificate_path).paths.password_path
           mode == open_mode(args[p].force)
       IN IF open_raises(disk, path, mode)
          THEN /\ result' = [result EXCEPT ![p] = Raise("FileExistsError", "password_path")]
               /\ temp' = [temp EXCEPT ![p] = TemporaryDirectory_exit(@)]
               /\ pc' = [pc EXCEPT ![p] = "done"]
               /\ UNCHANGED << disk, wrote >>
          ELSE /\ disk' = [disk EXCEPT ![path] = File(<<>>)]
               /\ wrote' = [wrote EXCEPT ![p] = @ \cup {path}]
               /\ pc' = [pc EXCEPT ![p] = "gen_write_pw"]
               /\ UNCHANGED << result, temp >>
    /\ UNCHANGED << platform, argv, env, app, args, password, pfx_data, spawned,
                    entered, pre, temp_made, printed >>

\* f.write(password), then the end of the TemporaryDirectory block.
gen_write_pw(p) ==
    /\ pc[p] = "gen_write_pw"
    /\ LET path == SecretsPaths_parse(app[p], args[p].certificate_path).paths.password_path
       IN \E io_ok \in BOOLEAN :
           IF io_ok
           THEN /\ disk' = [disk EXCEPT ![path] = File(write(@.data, password[p]))]
                /\ result' = [result EXCEPT ![p] = Ok]
           ELSE /\ result' = [result EXCEPT ![p] = Raise("OSError", "password_path")]
                /\ UNCHANGED disk
    /\ temp' = [temp EXCEPT ![p] = TemporaryDirectory_exit(@)]
    /\ pc' = [pc EXCEPT ![p] = "done"]
    /\ UNCHANGED << platform, argv, env, app, args, password, pfx_data, spawned,
                    entered, wrote, pre, temp_made, printed >>


\* App.sign_executable after the no-op test: the temporary directory.
sign_executable_body(p) ==
    /\ temp' = [temp EXCEPT ![p] = TemporaryDirectory_enter]
    /\ temp_made' = [temp_made EXCEPT ![p] = TRUE]
    /\ pc' = [pc EXCEPT ![p] = "sign_write"]
    /\ UNCHANGED result

\* Variant: sign_executable without its no-op test.
sign_executable_unguarded(p) ==
    /\ pc[p] = "func" /\ args[p].cmd = "sign"
    /\ entered' = [entered EXCEPT ![p] = "sign_executable"]
    /\ sign_executable_body(p)
    /\ UNCHANGED << disk, platform, argv, env, app, args, password, pfx_data, spawned,
                    wrote, pre, printed >>

\* App.sign_executable, entry.
sign_executable(p) ==
    /\ pc[p] = "func" /\ args[p].cmd = "sign"
    /\ entered' = [entered EXCEPT ![p] = "sign_executable"]
    /\ IF app[p].is_no_op
       THEN /\ result' = [result EXCEPT ![p] = Ok]
            /\ pc' = [pc EXCEPT ![p] = "done"]
            /\ UNCHANGED << temp, temp_made >>
       ELSE sign_executable_body(p)
    /\ UNCHANGED << disk, platform, argv, env, app, args, password, pfx_data, spawned,
                    wrote, pre, printed >>

\* with open(temp_path, "wb") as f: f.write(secrets.certificate)
sign_write(p) ==
    /\ pc[p] = "sign_write"
    /\ \E io_ok \in BOOLEAN :
        IF io_ok
        THEN /\ temp' = [temp EXCEPT ![p].pfx = File(args[p].secrets.certificate)]
             /\ pc' = [pc EXCEPT ![p] = "sign_run"]
             /\ UNCHANGED result
        ELSE /\ result' = [result EXCEPT ![p] = Raise("OSError", "cert.pfx")]
             /\ temp' = [temp EXCEPT ![p] = TemporaryDirectory_exit(@)]
             /\ pc' = [pc EXCEPT ![p] = "done"]
    /\ UNCHANGED << disk, platform, argv, env, app, args, password, pfx_data, spawned,
                    entered, wrote, pre, temp_made, printed >>

\* run(command, check=True) of signtool sign, then the end of the
\* TemporaryDirectory block.  What signtool does to the executable is not
\* part of this program; the command it is given is recorded.
sign_run(p) ==
    /\ pc[p] = "sign_run"
    /\ \E rc \in ReturnCodes :
        /\ spawned' = [spawned EXCEPT ![p] =
               Append(@, Spawn(app[p].signtool_path, "sign", rc, app[p], temp[p].pfx.data,
                               args[p].secrets.password, args[p].executable_path))]
        /\ result' = [result EXCEPT ![p] =
               IF run_raises(rc) THEN Raise("CalledProcessError", "signtool sign") ELSE Ok]
    /\ temp' = [temp EXCEPT ![p] = TemporaryDirectory_exit(@)]
    /\ pc' = [pc EXCEPT ![p] = "done"]
    /\ UNCHANGED << disk, platform, argv, env, app, args, password, pfx_data, entered,
                    wrote, pre, temp_made, printed >>

\* App.verify_executable after the no-op test.
verify_executable_body(p) ==
    /\ pc' = [pc EXCEPT ![p] = "verify_run"]
    /\ UNCHANGED result

\* App.verify_executable, entry.
verify_executable(p) ==
    /\ pc[p] = "func" /\ args[p].cmd = "verify"
    /\ entered' = [entered EXCEPT ![p] = "verify_executable"]
    /\ IF app[p].is_no_op
       THEN /\ result' = [result EXCEPT ![p] =
                   Raise("RuntimeError", "Not supported on this platform")]
            /\ pc' = [pc EXCEPT ![p] = "done"]
       ELSE verify_executable_body(p)
    /\ UNCHANGED << disk, temp, platform, argv, env, app, args, password, pfx_data,
                    spawned, wrote, pre, temp_made, printed >>

\* run(command, check=True) of signtool verify.
verify_run(p) ==
    /\ pc[p] = "verify_run"
    /\ \E rc \in ReturnCodes :
        /\ spawned' = [spawned EXCEPT ![p] =
               Append(@, Spawn(app[p].signtool_path, "verify", rc, app[p], <<>>, <<>>,
                               args[p].executable_path))]
        /\ result' = [result EXCEPT ![p] =
               IF run_raises(rc) THEN Raise("CalledProcessError", "signtool verify") ELSE Ok]
    /\ pc' = [pc EXCEPT ![p] = "done"]
    /\ UNCHANGED << disk, temp, platform, argv, env, app, args, password, pfx_data,
                    entered, wrote, pre, temp_made, printed >>

\* The process ends; nothing of it remains but the files on the disk.
Exit(p) ==
    /\ pc[p] = "done"
    /\ pc' = [pc EXCEPT ![p] = "idle"]
    /\ temp' = [temp EXCEPT ![p] = NoTemp]
    /\ platform' = [platform EXCEPT ![p] = ""]
    /\ argv' = [argv EXCEPT ![p] = NoArgv]
    /\ env' = [env EXCEPT ![p] = NoEnv]
    /\ app' = [app EXCEPT ![p] = NoApp]
    /\ args' = [args EXCEPT ![p] = NoArgs]
    /\ password' = [password EXCEPT ![p] = <<>>]
    /\ pfx_data' = [pfx_data EXCEPT ![p] = <<>>]
    /\ result' = [result EXCEPT ![p] = Running]
    /\ spawned' = [spawned EXCEPT ![p] = <<>>]
    /\ entered' = [entered EXCEPT ![p] = ""]
    /\ wrote' = [wrote EXCEPT ![p] = {}]
    /\ pre' = [pre EXCEPT ![p] = NoDisk]
    /\ temp_made' = [temp_made EXCEPT ![p] = FALSE]
    /\ printed' = [printed EXCEPT ![p] = FALSE]
    /\ UNCHANGED disk

\* ---------------------------------------------------------- specifications
\* Invocations one after the other on the same working directory.
Next ==
    \E p \in Procs :
        \/ Start(p)
        \/ show_info(p)
        \/ generate_certificate(p)
        \/ gen_run(p)
        \/ gen_open(p)
        \/ gen_write(p)
        \/ gen_open_pw(p)
        \/ gen_write_pw(p)
        \/ sign_executable(p)
        \/ sign_write(p)
        \/ sign_run(p)
        \/ verify_executable(p)
        \/ verify_run(p)
        \/ Exit(p)

Spec == Init /\ [][Next]_vars

\* Uncoordinated invocations of `cert --no-force out.crt` on a Windows host,
\* each started at any moment.
StartCert(p) ==
    \E av \in { a \in CertArgvs : a.path = Given("out", ".crt") /\ a.force = "--no-force" } :
        Main(p, "windows", TRUE, av, NoEnv)

NextConc ==
    \E p \in Procs :
        \/ StartCert(p)
        \/ generate_certificate(p)
        \/ gen_run(p)
        \/ gen_open(p)
        \/ gen_write(p)
        \/ gen_open_pw(p)
        \/ gen_write_pw(p)

SpecConc == Init /\ [][NextConc]_vars

TypeOK ==
    /\ DOMAIN disk = DiskPaths
    /\ \A p \in Procs :
        pc[p] \in {"idle", "func", "gen_run", "gen_open", "gen_write", "gen_open_pw",
                   "gen_write_pw", "sign_write", "sign_run", "verify_run", "done"}


\* ------------------------------------------------------------------ claims
Done(p) == pc[p] = "done"
Constructed(p) == pc[p] # "idle" /\ app[p] # NoApp
FunctionalMode(p) == Constructed(p) /\ ~app[p].is_no_op
NoOpMode(p) == Constructed(p) /\ app[p].is_no_op

\* The output files of the `cert` invocation of p.
CertPaths(p) == SecretsPaths_parse(app[p], args[p].certificate_path)
CertFile(p) == CertPaths(p).paths.certificate_path
PassFile(p) == CertPaths(p).paths.password_path

\* p has run generate_certificate to its end in functional mode on a path
\* with the certificate extension.
GenerateDone(p) ==
    /\ Done(p) /\ FunctionalMode(p)
    /\ entered[p] = "generate_certificate"
    /\ CertPaths(p).ok

\* No read or write of p was failed by the operating system.
NoIOFailure(p) == result[p].err # "OSError"

\* C1: `cert <path>` in functional mode without --force (flag omitted, or
\* --no-force given), started when the certificate file or the password file
\* of <path> exists, ends in an error and leaves every output file that
\* existed as it was (stated for the runs in which no read or write is
\* failed by the operating system).
C1_CertFailsWhenOutputsExist ==
    \A p \in Procs :
        ( /\ GenerateDone(p) /\ NoIOFailure(p)
          /\ argv[p].force \in {"", "--no-force"}
          /\ (pre[p][CertFile(p)].exists \/ pre[p][PassFile(p)].exists) )
        => /\ result[p].status = "error"
           /\ \A q \in {CertFile(p), PassFile(p)} :
                  pre[p][q].exists => disk[q] = pre[p][q]

\* The save step of generate_certificate was reached: the helper exited with
\* 0 and cert.pfx could be opened; no read or write was failed by the
\* operating system.
SaveReached(p) ==
    /\ GenerateDone(p) /\ NoIOFailure(p)
    /\ result[p].err \notin {"CalledProcessError", "FileNotFoundError"}

\* C2: saving with overwrite=false (generate_certificate with force=False)
\* when the certificate file, the password file or both exist fails with
\* FileExistsError, and both paths keep the existence and the content they
\* had before the call.
C2_NoPartialStateOnAlreadyExists ==
    \A p \in Procs :
        ( /\ SaveReached(p)
          /\ args[p].force = PyBool(FALSE)
          /\ (pre[p][CertFile(p)].exists \/ pre[p][PassFile(p)].exists) )
        => /\ result[p].err = "FileExistsError"
           /\ disk[CertFile(p)] = pre[p][CertFile(p)]
           /\ disk[PassFile(p)] = pre[p][PassFile(p)]

\* C3: after a bundle has been saved with overwrite=true to a certificate
\* path with the configured extension and its sibling password path,
\* Secrets.load of that certificate path succeeds and returns the certificate
\* bytes and the password that were saved.
C3_SaveLoadRoundTrip ==
    \A p \in Procs :
        ( /\ GenerateDone(p)
          /\ args[p].force = PyBool(TRUE)
          /\ result[p] = Ok )
        => LET loaded == Secrets_load(app[p], args[p].certificate_path, disk)
           IN /\ loaded.ok
              /\ loaded.value = Secrets(pfx_data[p], password[p])

\* C4: in no-op mode no external process is spawned, no temporary directory
\* is made and no file is created, modified or deleted; generate_certificate
\* and sign_executable return at once without error, whatever their
\* arguments, and verify_executable fails at once with RuntimeError("Not
\* supported on this platform").
C4_NoOpMode ==
    \A p \in Procs :
        NoOpMode(p)
        => /\ spawned[p] = <<>>
           /\ ~temp_made[p] /\ temp[p] = NoTemp
           /\ wrote[p] = {} /\ disk = pre[p]
           /\ entered[p] \in {"generate_certificate", "sign_executable"}
                  => (Done(p) /\ result[p] = Ok)
           /\ entered[p] = "verify_executable"
                  => (Done(p) /\ result[p].err = "RuntimeError")

\* A no-op run of sign_executable has returned.
C4_Witness ==
    \E p \in Procs :
        NoOpMode(p) /\ Done(p) /\ entered[p] = "sign_executable" /\ result[p] = Ok

\* C5: whenever generate_certificate or sign_executable has finished in
\* functional mode (by success, by failure of the external process or by
\* failure of a file read or write), the temporary directory it created and
\* the cert.pfx in it are gone; a temporary directory exists only while the
\* operation that made it is running.
C5_TempDirRemoved ==
    \A p \in Procs :
        /\ ( Done(p) /\ FunctionalMode(p)
             /\ entered[p] \in {"generate_certificate", "sign_executable"} )
           => (~temp[p].exists /\ ~temp[p].pfx.exists)
        /\ temp[p].exists
           => pc[p] \in {"gen_run", "gen_open", "gen_write", "gen_open_pw",
                         "gen_write_pw", "sign_write", "sign_run"}

\* generate_certificate has ended on a failed write after it had made its
\* temporary directory and the helper had filled it.
C5_Witness ==
    \E p \in Procs :
        /\ Done(p) /\ FunctionalMode(p) /\ temp_made[p]
        /\ entered[p] = "generate_certificate"
        /\ result[p].err = "OSError"

\* C6: whenever the App configuration was constructed, `info` prints the
\* configuration and finishes without error, for every setting of the two
\* default-credential environment variables (unset, one set, both set, with
\* any content) and any trailing arguments (stated for trailing arguments
\* that are plain words).
C6_InfoAlwaysSucceeds ==
    \A p \in Procs :
        ( /\ Done(p) /\ Constructed(p) /\ argv[p].cmd = "info"
          /\ \A i \in 1..Len(argv[p].rest) : ~IsOptionLike(argv[p].rest[i]) )
        => (result[p] = Ok /\ printed[p])

\* The executable named on the command line of p exists when p starts.
ExecutableExists(p) ==
    argv[p].path.given /\ isfile(pre[p], file_path(Cwd, argv[p].path.p))

C8_ValidationPrecedesOrchestration ==
    \A p \in Procs :
        ( /\ Constructed(p)
          /\ argv[p].cmd \in {"sign", "verify"}
          /\ argv[p].path.given /\ ~ExecutableExists(p) )
        => /\ Done(p) /\ result[p].status = "error"
           /\ entered[p] = "" /\ spawned[p] = <<>> /\ ~temp_made[p]

\* `sign nope.exe` with a usable default bundle has been rejected on a
\* Windows host.
C8_Witness ==
    \E p \in Procs :
        /\ Done(p) /\ FunctionalMode(p)
        /\ argv[p].cmd = "sign" /\ argv[p].path.given /\ ~ExecutableExists(p)
        /\ env[p].crt.set /\ env[p].pass.set
        /\ result[p] = ParserError("does not exist")

\* C9: in functional mode an external process that exits non-zero ends the
\* operation with CalledProcessError; when it is the certificate helper,
\* neither the certificate file nor the password file has been created or
\* modified, for both values of force.
C9_ProcessFailureIsFatal ==
    \A p \in Procs :
        \A i \in 1..Len(spawned[p]) :
            spawned[p][i].returncode # 0
            => /\ Done(p) /\ result[p].err = "CalledProcessError"
               /\ spawned[p][i].verb = "helper"
                      => /\ wrote[p] = {}
                         /\ disk[CertFile(p)] = pre[p][CertFile(p)]
                         /\ disk[PassFile(p)] = pre[p][PassFile(p)]

\* The helper has failed in a `cert --force` run over existing files.
C9_Witness ==
    \E p \in Procs :
        /\ Done(p) /\ entered[p] = "generate_certificate"
        /\ args[p].force = PyBool(TRUE)
        /\ Len(spawned[p]) = 1 /\ spawned[p][1].returncode # 0
        /\ pre[p][OutCrt].exists /\ pre[p][OutCrtPass].exists

\* The invocations that have been started.
Started == { p \in Procs : pc[p] # "idle" }

\* p is a finished generate_certificate with force=False on out.crt that
\* started when neither file existed, whose helper succeeded and whose reads
\* and writes did not fail.
CleanRace(p) ==
    /\ GenerateDone(p)
    /\ args[p].force = PyBool(FALSE) /\ CertFile(p) = OutCrt
    /\ ~pre[p][OutCrt].exists /\ ~pre[p][OutCrtPass].exists
    /\ Len(spawned[p]) = 1 /\ spawned[p][1].returncode = 0
    /\ result[p].err # "FileNotFoundError" /\ NoIOFailure(p)

\* C10: when two (or more) concurrent generate_certificate invocations with
\* force=False on the same certificate path, started when neither file
\* existed and with succeeding helpers, have all finished, exactly one has
\* succeeded, every other one has failed with FileExistsError without
\* writing to either path, and the certificate file and the password file
\* both hold what the successful one wrote.
C10_NoMixedBundle ==
    (Cardinality(Started) >= 2 /\ \A p \in Started : CleanRace(p))
    => \E w \in Started :
           /\ result[w] = Ok
           /\ \A q \in Started \ {w} :
                  result[q].err = "FileExistsError" /\ wrote[q] = {}
           /\ disk[OutCrt] = File(b64encode(pfx_data[w]))
           /\ b64decode(disk[OutCrt].data) = [ok |-> TRUE, data |-> pfx_data[w]]
           /\ disk[OutCrtPass] = File(password[w])

\* Two invocations have raced from an empty directory and both are done.
C10_Witness ==
    /\ Cardinality(Started) >= 2
    /\ \A p \in Started : CleanRace(p)
    /\ \E w \in Started : result[w] = Ok
    /\ \E q \in Started : result[q].err = "FileExistsError"

====
